---- MODULE Spec2Model ----
(***************************************************************************)
(* Stock ledger of the retail inventory tracker: the inventory and         *)
(* stock_movements tables and the operations that write them               *)
(* (WarehouseController.transfer_inventory / adjust_inventory,             *)
(* InventoryAPI.add_inventory / update_inventory / delete_inventory and    *)
(* the add_stock_movement route).                                          *)
(*                                                                         *)
(* A table is the sequence of its rows in rowid order.  Columns that no    *)
(* operation reads back (last_updated, notes, user_id, created_at) are     *)
(* not carried.  The ledger starts with empty inventory and movement       *)
(* tables under either of the two schemas the repository ships; the sample *)
(* rows setup_database.py inserts are rows add_inventory and               *)
(* add_stock_movement produce.                                             *)
(***************************************************************************)
EXTENDS Integers, Sequences, FiniteSets, TLC

VARIABLES schema, inventory, movements, nextId, clock, result, calls, products,
          warehouses, users, session, user_sessions

vars == <<schema, inventory, movements, nextId, clock, result, calls, products,
          warehouses, users, session, user_sessions>>

(***************************************************************************)
(* Bounds of the model.                                                    *)
(***************************************************************************)
MaxQty == 2
MaxMoves == 3
MaxId == 2
MaxClock == 1

Products == {1}
Warehouses == {1, 2}
NoSuchId == 0
Schemas == {"app", "setup"}

\* arguments the calls are made with
TransferQuantities == {1}
AdjustQuantities == {-1, 1}
AdjustWarehouses == {1}
AdjustmentTypes == {"CORRECTION"}
MovementTypeInputs == {"in", "out"}
MovementQuantities == {0, 1}
MovementWarehouses == {1}
AddData ==
    {[product_id |-> p, warehouse_id |-> w, quantity |-> q] :
        p \in Products, w \in Warehouses, q \in {0, 1}}
    \cup {[product_id |-> NoSuchId, warehouse_id |-> 1, quantity |-> 1],
          [product_id |-> 1, warehouse_id |-> NoSuchId, quantity |-> 1],
          [product_id |-> 1, warehouse_id |-> 1]}
UpdateData ==
    {[quantity |-> q] : q \in {2}}

(***************************************************************************)
(* Schema.                                                                 *)
(***************************************************************************)
\* CHECK (movement_type IN (...)) of setup_database.py; app.py has no CHECK.
SetupMovementTypes ==
    {"IN", "OUT", "TRANSFER_IN", "TRANSFER_OUT", "ADJUSTMENT_IN",
     "ADJUSTMENT_OUT", "RETURN", "DAMAGED", "INITIAL", "REMOVED"}

MovementTypeAllowed(type) ==
    schema = "setup" => type \in SetupMovementTypes

\* UNIQUE(product_id, warehouse_id) of setup_database.py; app.py has none.
UniquePair == schema = "setup"

DefaultReserved == 0
DefaultReorderLevel == 10
DefaultMaxStockLevel == 1000

(***************************************************************************)
(* Rows and queries.                                                       *)
(***************************************************************************)
Db == [inventory |-> inventory, movements |-> movements, nextId |-> nextId]

Match(r, p, w) == r.product_id = p /\ r.warehouse_id = w

\* SELECT ... FROM inventory WHERE product_id = ? AND warehouse_id = ?
Matching(inv, p, w) == SelectSeq(inv, LAMBDA r : Match(r, p, w))

\* SELECT ... FROM inventory WHERE id = ?
ById(inv, id) == SelectSeq(inv, LAMBDA r : r.id = id)

Movement(p, w, type, q, ref) ==
    [product_id |-> p, warehouse_id |-> w, movement_type |-> type,
     quantity |-> q, reference_number |-> ref]

NoRef == <<"NONE", 0>>

\* f"{PREFIX}-{datetime.now().strftime('%Y%m%d%H%M%S')}"
Reference(prefix, now) == <<prefix, now>>

Abs(n) == IF n < 0 THEN -n ELSE n

Get(data, field, default) ==
    IF field \in DOMAIN data THEN data[field] ELSE default

(***************************************************************************)
(* Statements.  Each returns [ok, db]: ok is FALSE when the statement      *)
(* raises (a constraint of the schema fails), and then db is unchanged.    *)
(***************************************************************************)
\* UPDATE inventory SET quantity = ? WHERE product_id = ? AND warehouse_id = ?
UpdateQuantity(db, p, w, q) ==
    [ok |-> TRUE,
     db |-> [db EXCEPT !.inventory =
                [i \in DOMAIN db.inventory |->
                    IF Match(db.inventory[i], p, w)
                    THEN [db.inventory[i] EXCEPT !.quantity = q]
                    ELSE db.inventory[i]]]]

\* UPDATE inventory SET quantity = quantity - ? WHERE product_id = ? AND warehouse_id = ?
DecrementQuantity(db, p, w, q) ==
    [ok |-> TRUE,
     db |-> [db EXCEPT !.inventory =
                [i \in DOMAIN db.inventory |->
                    IF Match(db.inventory[i], p, w)
                    THEN [db.inventory[i] EXCEPT !.quantity = @ - q]
                    ELSE db.inventory[i]]]]

\* UPDATE inventory SET <fields of data> WHERE id = ?
UpdateById(db, id, data) ==
    [ok |-> TRUE,
     db |-> [db EXCEPT !.inventory =
                [i \in DOMAIN db.inventory |->
                    IF db.inventory[i].id = id
                    THEN [f \in DOMAIN db.inventory[i] |->
                            Get(data, f, db.inventory[i][f])]
                    ELSE db.inventory[i]]]]

NewRow(db, p, w, q, reserved, reorder, maxStock) ==
    [id |-> db.nextId, product_id |-> p, warehouse_id |-> w, quantity |-> q,
     reserved_quantity |-> reserved, reorder_level |-> reorder,
     max_stock_level |-> maxStock]

\* INSERT INTO inventory (...) VALUES (...)
InsertInventory(db, p, w, q, reserved, reorder, maxStock) ==
    IF UniquePair /\ Matching(db.inventory, p, w) # <<>>
    THEN [ok |-> FALSE, db |-> db]
    ELSE [ok |-> TRUE,
          db |-> [db EXCEPT
                    !.inventory = Append(@, NewRow(db, p, w, q, reserved, reorder, maxStock)),
                    !.nextId = @ + 1]]

\* INSERT OR REPLACE INTO inventory (product_id, warehouse_id, quantity)
\* VALUES (?, ?, COALESCE((SELECT quantity FROM inventory WHERE ...), 0) + ?)
ReplaceInventory(db, p, w, q) ==
    LET old == Matching(db.inventory, p, w)
        base == IF old = <<>> THEN 0 ELSE old[1].quantity
        kept == IF UniquePair
                THEN SelectSeq(db.inventory, LAMBDA r : ~Match(r, p, w))
                ELSE db.inventory
    IN  [ok |-> TRUE,
         db |-> [db EXCEPT
                    !.inventory = Append(kept,
                        NewRow(db, p, w, base + q, DefaultReserved,
                               DefaultReorderLevel, DefaultMaxStockLevel)),
                    !.nextId = @ + 1]]

\* SELECT reorder_level, max_stock_level FROM inventory WHERE (product, from)
\* INSERT INTO inventory (product_id, warehouse_id, quantity, reorder_level, max_stock_level)
\* a destination record created with the defaults instead of the source's levels
InsertDestinationDefaults(db, p, from, to, q) ==
    InsertInventory(db, p, to, q, DefaultReserved, DefaultReorderLevel, DefaultMaxStockLevel)

InsertDestination(db, p, from, to, q) ==
    LET reorder_info == Matching(db.inventory, p, from)
        reorder_level == IF reorder_info # <<>> THEN reorder_info[1].reorder_level ELSE 10
        max_stock_level == IF reorder_info # <<>> THEN reorder_info[1].max_stock_level ELSE 1000
    IN  InsertInventory(db, p, to, q, DefaultReserved, reorder_level, max_stock_level)

\* DELETE FROM inventory WHERE id = ?
DeleteById(db, id) ==
    [ok |-> TRUE,
     db |-> [db EXCEPT !.inventory = SelectSeq(@, LAMBDA r : r.id # id)]]

\* an insert that keeps one row per (product, warehouse): the newest replaces the old
InsertMovementLatestOnly(db, m) ==
    IF ~MovementTypeAllowed(m.movement_type)
    THEN [ok |-> FALSE, db |-> db]
    ELSE [ok |-> TRUE,
          db |-> [db EXCEPT !.movements =
                    Append(SelectSeq(@, LAMBDA r : ~Match(r, m.product_id, m.warehouse_id)), m)]]

\* INSERT INTO stock_movements (...) VALUES (...)
InsertMovement(db, m) ==
    IF ~MovementTypeAllowed(m.movement_type)
    THEN [ok |-> FALSE, db |-> db]
    ELSE [ok |-> TRUE, db |-> [db EXCEPT !.movements = Append(@, m)]]

Exec(db, s) ==
    CASE s.stmt = "UPDATE_QTY" ->
            UpdateQuantity(db, s.product_id, s.warehouse_id, s.quantity)
      [] s.stmt = "DEC_QTY" ->
            DecrementQuantity(db, s.product_id, s.warehouse_id, s.quantity)
      [] s.stmt = "UPDATE_ID" -> UpdateById(db, s.id, s.data)
      [] s.stmt = "INSERT_INV" ->
            InsertInventory(db, s.product_id, s.warehouse_id, s.quantity,
                            s.reserved_quantity, s.reorder_level, s.max_stock_level)
      [] s.stmt = "REPLACE_INV" ->
            ReplaceInventory(db, s.product_id, s.warehouse_id, s.quantity)
      [] s.stmt = "INSERT_DEST" ->
            InsertDestination(db, s.product_id, s.from_warehouse_id,
                              s.warehouse_id, s.quantity)
      [] s.stmt = "DELETE_ID" -> DeleteById(db, s.id)
      [] s.stmt = "INSERT_MOV" -> InsertMovement(db, s.row)

(***************************************************************************)
(* Transactions.  The statements run in order on a working copy; fail = i  *)
(* makes the store raise at statement i (i = Len(stmts) + 1 is COMMIT),    *)
(* fail = 0 is a store that does not fail.  A raise reaches the handler,   *)
(* which executes ROLLBACK.                                                *)
(***************************************************************************)
\* a handler that swallows the exception without undoing the statements
RollbackMissing(snapshot, working) == working

\* cursor.execute('ROLLBACK')
Rollback(snapshot, working) == snapshot

RECURSIVE RunFrom(_, _, _, _, _)
RunFrom(snapshot, working, stmts, i, fail) ==
    IF i > Len(stmts)
    THEN IF fail = i
         THEN [ok |-> FALSE, db |-> Rollback(snapshot, working)]
         ELSE [ok |-> TRUE, db |-> working]
    ELSE LET r == Exec(working, stmts[i])
         IN  IF fail = i \/ ~r.ok
             THEN [ok |-> FALSE, db |-> Rollback(snapshot, working)]
             ELSE RunFrom(snapshot, r.db, stmts, i + 1, fail)

\* BEGIN TRANSACTION ... COMMIT, with the except-handler's ROLLBACK
RunTxn(db, stmts, fail) == RunFrom(db, db, stmts, 1, fail)

(***************************************************************************)
(* Results and frame.                                                      *)
(***************************************************************************)
Res(op, success, message, a, b, ref) ==
    [op |-> op, success |-> success, message |-> message,
     a |-> a, b |-> b, ref |-> ref]

NoResult == Res("none", FALSE, "", 0, 0, NoRef)

Bounded(db) ==
    /\ Len(db.movements) <= MaxMoves
    /\ db.nextId <= MaxId + 1
    /\ \A i \in DOMAIN db.inventory : Abs(db.inventory[i].quantity) <= MaxQty

\* Exploration stops at a failed call: it has left the ledger as it found it
\* (which the properties below check at the failing step itself), so the calls
\* that could follow it are the calls that could have been made in its place.
Ready == result.success \/ result.op = "none"

Store(db) ==
    /\ Bounded(db)
    /\ inventory' = db.inventory
    /\ movements' = db.movements
    /\ nextId' = db.nextId

(***************************************************************************)
(* WarehouseController.transfer_inventory                                  *)
(***************************************************************************)
\* the comparison made against the available quantity (quantity - reserved_quantity)
SourceCheckAvailable(source, quantity) ==
    IF source = <<>> THEN "not_found"
    ELSE IF source[1].quantity - source[1].reserved_quantity < quantity THEN "insufficient"
    ELSE "ok"

\* the source lookup alone, without the comparison against the requested quantity
SourceCheckNoStock(source, quantity) ==
    IF source = <<>> THEN "not_found" ELSE "ok"

\* the two precondition checks, in the order of the code
SourceCheck(source, quantity) ==
    IF source = <<>> THEN "not_found"
    ELSE IF source[1].quantity < quantity THEN "insufficient"
    ELSE "ok"

\* the two rows stamped separately, the second one a second later
TransferMovementsTwoStamps(p, from, to, quantity, ref) ==
    << [stmt |-> "INSERT_MOV", row |-> Movement(p, from, "TRANSFER_OUT", quantity, ref)],
       [stmt |-> "INSERT_MOV",
        row |-> Movement(p, to, "TRANSFER_IN", quantity, Reference(ref[1], ref[2] + 1))] >>

TransferMovements(p, from, to, quantity, ref) ==
    << [stmt |-> "INSERT_MOV", row |-> Movement(p, from, "TRANSFER_OUT", quantity, ref)],
       [stmt |-> "INSERT_MOV", row |-> Movement(p, to, "TRANSFER_IN", quantity, ref)] >>

TransferWrites(p, from, to, quantity, source_quantity, dest_result) ==
    << [stmt |-> "UPDATE_QTY", product_id |-> p, warehouse_id |-> from,
        quantity |-> source_quantity - quantity],
       IF dest_result # <<>>
       THEN [stmt |-> "UPDATE_QTY", product_id |-> p, warehouse_id |-> to,
             quantity |-> dest_result[1].quantity + quantity]
       ELSE [stmt |-> "INSERT_DEST", product_id |-> p, warehouse_id |-> to,
             from_warehouse_id |-> from, quantity |-> quantity] >>

transfer_inventory(p, from, to, quantity, fail) ==
    LET source_result == Matching(inventory, p, from)
        check == SourceCheck(source_result, quantity)
    IN  /\ Ready
        /\ check # "ok" => fail = 0
        /\ UNCHANGED <<warehouses, users, session, user_sessions, schema, clock, calls, products>>
        /\ IF check = "not_found"
           THEN /\ result' = Res("transfer_inventory", FALSE,
                                 "Product not found in source warehouse", 0, 0, NoRef)
                /\ UNCHANGED <<inventory, movements, nextId>>
           ELSE IF check = "insufficient"
           THEN /\ result' = Res("transfer_inventory", FALSE, "Insufficient inventory",
                                 source_result[1].quantity, quantity, NoRef)
                /\ UNCHANGED <<inventory, movements, nextId>>
           ELSE LET source_quantity == source_result[1].quantity
                    dest_result == Matching(inventory, p, to)
                    transfer_reference == Reference("TRANSFER", clock)
                    out == RunTxn(Db,
                              TransferWrites(p, from, to, quantity, source_quantity, dest_result)
                              \o TransferMovements(p, from, to, quantity, transfer_reference),
                              fail)
                IN  /\ Store(out.db)
                    /\ result' = IF out.ok
                                 THEN Res("transfer_inventory", TRUE, "Successfully transferred",
                                          quantity, 0, transfer_reference)
                                 ELSE Res("transfer_inventory", FALSE, "Transfer failed",
                                          0, 0, NoRef)

(***************************************************************************)
(* WarehouseController.adjust_inventory                                    *)
(***************************************************************************)
\* an adjustment that is never rejected
AdjustNeverRejected(current_quantity, adjustment_quantity) == FALSE

\* if new_quantity < 0
AdjustRejected(current_quantity, adjustment_quantity) ==
    current_quantity + adjustment_quantity < 0

\* f'ADJUST_{adjustment_type}'
AdjustMovementType(adjustment_type) == "ADJUST_" \o adjustment_type

\* the update done in place: SET quantity = quantity + adjustment_quantity
AdjustStatementsInPlace(p, w, new_quantity, adjustment_quantity, adjustment_type, ref) ==
    << [stmt |-> "DEC_QTY", product_id |-> p, warehouse_id |-> w,
        quantity |-> 0 - adjustment_quantity],
       [stmt |-> "INSERT_MOV",
        row |-> Movement(p, w, AdjustMovementType(adjustment_type),
                         Abs(adjustment_quantity), ref)] >>

AdjustStatements(p, w, new_quantity, adjustment_quantity, adjustment_type, ref) ==
    << [stmt |-> "UPDATE_QTY", product_id |-> p, warehouse_id |-> w,
        quantity |-> new_quantity],
       [stmt |-> "INSERT_MOV",
        row |-> Movement(p, w, AdjustMovementType(adjustment_type),
                         Abs(adjustment_quantity), ref)] >>

\* the result returned after the transaction of adjust_inventory
AdjustResult(ok, current_quantity, new_quantity, ref) ==
    IF ok
    THEN Res("adjust_inventory", TRUE, "Inventory adjusted successfully",
             current_quantity, new_quantity, ref)
    ELSE Res("adjust_inventory", FALSE, "Adjustment failed", 0, 0, NoRef)

adjust_inventory(p, w, adjustment_quantity, adjustment_type, fail) ==
    LET found == Matching(inventory, p, w)
    IN  /\ Ready
        /\ (found = <<>> \/ AdjustRejected(found[1].quantity, adjustment_quantity)) => fail = 0
        /\ UNCHANGED <<warehouses, users, session, user_sessions, schema, clock, calls, products>>
        /\ IF found = <<>>
           THEN /\ result' = Res("adjust_inventory", FALSE, "Inventory record not found",
                                 0, 0, NoRef)
                /\ UNCHANGED <<inventory, movements, nextId>>
           ELSE LET current_quantity == found[1].quantity
                    new_quantity == current_quantity + adjustment_quantity
                    reference_number == Reference("ADJ", clock)
                    out == RunTxn(Db,
                              AdjustStatements(p, w, new_quantity, adjustment_quantity,
                                               adjustment_type, reference_number),
                              fail)
                IN  IF AdjustRejected(current_quantity, adjustment_quantity)
                    THEN /\ result' = Res("adjust_inventory", FALSE,
                                          "Adjustment would result in negative inventory",
                                          current_quantity, adjustment_quantity, NoRef)
                         /\ UNCHANGED <<inventory, movements, nextId>>
                    ELSE /\ Store(out.db)
                         /\ result' = AdjustResult(out.ok, current_quantity, new_quantity,
                                                   reference_number)

(***************************************************************************)
(* InventoryAPI.add_inventory / update_inventory / delete_inventory        *)
(***************************************************************************)
RequiredFields == {"product_id", "warehouse_id", "quantity"}

UpdatableFields == {"quantity", "reserved_quantity", "reorder_level", "max_stock_level"}

AddStatements(data, ref) ==
    << [stmt |-> "INSERT_INV", product_id |-> data.product_id,
        warehouse_id |-> data.warehouse_id, quantity |-> data.quantity,
        reserved_quantity |-> Get(data, "reserved_quantity", 0),
        reorder_level |-> Get(data, "reorder_level", 10),
        max_stock_level |-> Get(data, "max_stock_level", 1000)] >>
    \o (IF data.quantity > 0
        THEN << [stmt |-> "INSERT_MOV",
                 row |-> Movement(data.product_id, data.warehouse_id, "INITIAL",
                                  data.quantity, ref)] >>
        ELSE << >>)

add_inventory(data) ==
    /\ Ready
    /\ UNCHANGED <<warehouses, users, session, user_sessions, schema, clock, calls, products>>
    /\ IF ~(RequiredFields \subseteq DOMAIN data)
       THEN /\ result' = Res("add_inventory", FALSE, "Missing required field", 0, 0, NoRef)
            /\ UNCHANGED <<inventory, movements, nextId>>
       ELSE IF Matching(inventory, data.product_id, data.warehouse_id) # <<>>
       THEN /\ result' = Res("add_inventory", FALSE, "Duplicate entry", 0, 0, NoRef)
            /\ UNCHANGED <<inventory, movements, nextId>>
       ELSE IF data.product_id \notin products
       THEN /\ result' = Res("add_inventory", FALSE, "Invalid product", 0, 0, NoRef)
            /\ UNCHANGED <<inventory, movements, nextId>>
       ELSE IF data.warehouse_id \notin Warehouses
       THEN /\ result' = Res("add_inventory", FALSE, "Invalid warehouse", 0, 0, NoRef)
            /\ UNCHANGED <<inventory, movements, nextId>>
       ELSE LET out == RunTxn(Db, AddStatements(data, Reference("INIT", clock)), 0)
            IN  /\ Store(out.db)
                /\ result' = IF out.ok
                             THEN Res("add_inventory", TRUE,
                                      "Inventory record created successfully",
                                      nextId, 0, NoRef)
                             ELSE Res("add_inventory", FALSE,
                                      "Failed to create inventory record", 0, 0, NoRef)

UpdateStatements(item_id, data, current, ref) ==
    (IF DOMAIN data \cap UpdatableFields # {}
     THEN << [stmt |-> "UPDATE_ID", id |-> item_id,
              data |-> [f \in DOMAIN data \cap UpdatableFields |-> data[f]]] >>
     ELSE << >>)
    \o (IF "quantity" \in DOMAIN data /\ data.quantity # current.quantity
        THEN LET quantity_change == data.quantity - current.quantity
                 movement_type == IF quantity_change > 0 THEN "ADJUSTMENT_IN"
                                  ELSE "ADJUSTMENT_OUT"
             IN  << [stmt |-> "INSERT_MOV",
                     row |-> Movement(current.product_id, current.warehouse_id,
                                      movement_type, Abs(quantity_change), ref)] >>
        ELSE << >>)

update_inventory(item_id, data) ==
    LET current == ById(inventory, item_id)
    IN  /\ Ready
        /\ UNCHANGED <<warehouses, users, session, user_sessions, schema, clock, calls, products>>
        /\ IF current = <<>>
           THEN /\ result' = Res("update_inventory", FALSE, "Item not found", 0, 0, NoRef)
                /\ UNCHANGED <<inventory, movements, nextId>>
           ELSE LET out == RunTxn(Db,
                              UpdateStatements(item_id, data, current[1],
                                               Reference("ADJ", clock)), 0)
                IN  /\ Store(out.db)
                    /\ result' = IF out.ok
                                 THEN Res("update_inventory", TRUE,
                                          "Inventory record updated successfully",
                                          0, 0, NoRef)
                                 ELSE Res("update_inventory", FALSE,
                                          "Failed to update inventory record", 0, 0, NoRef)

DeleteStatements(item_id, row, ref) ==
    (IF row.quantity > 0
     THEN << [stmt |-> "INSERT_MOV",
              row |-> Movement(row.product_id, row.warehouse_id, "REMOVED",
                               row.quantity, ref)] >>
     ELSE << >>)
    \o << [stmt |-> "DELETE_ID", id |-> item_id] >>

delete_inventory(item_id) ==
    LET inventory_data ==
            SelectSeq(ById(inventory, item_id),
                      LAMBDA r : r.product_id \in products /\ r.warehouse_id \in Warehouses)
    IN  /\ Ready
        /\ UNCHANGED <<warehouses, users, session, user_sessions, schema, clock, calls, products>>
        /\ IF inventory_data = <<>>
           THEN /\ result' = Res("delete_inventory", FALSE, "Item not found", 0, 0, NoRef)
                /\ UNCHANGED <<inventory, movements, nextId>>
           ELSE LET out == RunTxn(Db,
                              DeleteStatements(item_id, inventory_data[1],
                                               Reference("DEL", clock)), 0)
                IN  /\ Store(out.db)
                    /\ result' = IF out.ok
                                 THEN Res("delete_inventory", TRUE,
                                          "Inventory record deleted", 0, 0, NoRef)
                                 ELSE Res("delete_inventory", FALSE,
                                          "Failed to delete inventory record", 0, 0, NoRef)

(***************************************************************************)
(* add_stock_movement (app.py route)                                       *)
(***************************************************************************)
MovementStatements(movement_type, p, w, quantity) ==
    << [stmt |-> "INSERT_MOV", row |-> Movement(p, w, movement_type, quantity, NoRef)] >>
    \o (IF movement_type \in {"in", "adjustment"}
        THEN << [stmt |-> "REPLACE_INV", product_id |-> p, warehouse_id |-> w,
                 quantity |-> quantity] >>
        ELSE IF movement_type \in {"out"}
        THEN << [stmt |-> "DEC_QTY", product_id |-> p, warehouse_id |-> w,
                 quantity |-> quantity] >>
        ELSE << >>)

add_stock_movement(movement_type, p, w, quantity) ==
    /\ Ready
    /\ UNCHANGED <<warehouses, users, session, user_sessions, schema, clock, calls, products>>
    /\ IF quantity = 0
       THEN /\ result' = Res("add_stock_movement", FALSE,
                             "Please fill in all required fields", 0, 0, NoRef)
            /\ UNCHANGED <<inventory, movements, nextId>>
       ELSE LET out == RunTxn(Db, MovementStatements(movement_type, p, w, quantity), 0)
            IN  /\ Store(out.db)
                /\ result' = IF out.ok
                             THEN Res("add_stock_movement", TRUE,
                                      "Stock movement added successfully", 0, 0, NoRef)
                             ELSE Res("add_stock_movement", FALSE,
                                      "Failed to add stock movement", 0, 0, NoRef)

(***************************************************************************)
(* Two adjust_inventory calls on their own connections.  A call reads the  *)
(* current quantity (lines 330-353) and later runs its transaction (lines  *)
(* 355-388); the store serialises the transactions, not the calls.         *)
(***************************************************************************)
Callers == {1, 2}

AdjustRead(c) ==
    LET call == calls[c]
        found == Matching(inventory, call.product_id, call.warehouse_id)
    IN  /\ call.pc = "start"
        /\ UNCHANGED <<warehouses, users, session, user_sessions, schema, inventory, movements, nextId, clock, result, products>>
        /\ IF found = <<>>
           THEN calls' = [calls EXCEPT ![c].pc = "done",
                            ![c].result = Res("adjust_inventory", FALSE,
                                              "Inventory record not found", 0, 0, NoRef)]
           ELSE IF AdjustRejected(found[1].quantity, call.adjustment_quantity)
           THEN calls' = [calls EXCEPT ![c].pc = "done",
                            ![c].result = Res("adjust_inventory", FALSE,
                                              "Adjustment would result in negative inventory",
                                              found[1].quantity, call.adjustment_quantity, NoRef)]
           ELSE calls' = [calls EXCEPT ![c].pc = "read",
                            ![c].current_quantity = found[1].quantity]

AdjustWrite(c) ==
    LET call == calls[c]
        new_quantity == call.current_quantity + call.adjustment_quantity
        reference_number == Reference("ADJ", clock)
        out == RunTxn(Db,
                  AdjustStatements(call.product_id, call.warehouse_id, new_quantity,
                                   call.adjustment_quantity, call.adjustment_type,
                                   reference_number),
                  0)
    IN  /\ call.pc = "read"
        /\ UNCHANGED <<warehouses, users, session, user_sessions, schema, clock, result, products>>
        /\ Store(out.db)
        /\ calls' = [calls EXCEPT ![c].pc = "done",
                        ![c].result = AdjustResult(out.ok, call.current_quantity,
                                                   new_quantity, reference_number)]

Tick ==
    /\ Ready
    /\ clock < MaxClock
    /\ clock' = clock + 1
    /\ UNCHANGED <<warehouses, users, session, user_sessions, schema, inventory, movements, nextId, result, calls, products>>

(***************************************************************************)
(* The tables and the browser sessions the ledger operations leave alone:  *)
(* warehouses (a capacity per warehouse, NULL where none was entered),     *)
(* users, the Flask session of each browser, and user_sessions.  A         *)
(* database starts with the default administrator and no session.          *)
(***************************************************************************)
\* a nullable column: NULL, or <<value>>
Null == << >>

DefaultCapacity == 10000

\* generate_password_hash / check_password_hash: a hash verifies exactly the
\* password it was made from
generate_password_hash(password) == <<"hash", password>>

check_password_hash(hash, password) == hash = <<"hash", password>>

DefaultAdmin ==
    [id |-> 1, username |-> "admin", email |-> "admin@retailtracker.com",
     password_hash |-> generate_password_hash("admin123"), role |-> "admin"]

\* a Flask session: the set of its keys and their values; cleared, it has no key
ClearedSession ==
    [keys |-> {}, user_id |-> 0, username |-> "", role |-> "",
     session_token |-> 0, last_activity |-> 0]

Browsers == {"visitor", "administrator"}

InitAccounts ==
    /\ warehouses = [w \in Warehouses |-> <<DefaultCapacity>>]
    /\ users = <<DefaultAdmin>>
    /\ session = [b \in Browsers |-> ClearedSession]
    /\ user_sessions = << >>

Init ==
    /\ schema \in Schemas
    /\ inventory = <<>>
    /\ movements = <<>>
    /\ nextId = 1
    /\ clock = 0
    /\ result = NoResult
    /\ calls = <<>>
    /\ products = Products
    /\ InitAccounts

Next ==
    \/ \E p \in Products, from \in Warehouses, to \in Warehouses,
          q \in TransferQuantities, fail \in 0..5 :
            transfer_inventory(p, from, to, q, fail)
    \/ \E p \in Products, w \in AdjustWarehouses, d \in AdjustQuantities,
          t \in AdjustmentTypes, fail \in 0..3 :
            adjust_inventory(p, w, d, t, fail)
    \/ \E data \in AddData : add_inventory(data)
    \/ \E id \in 1..MaxId, data \in UpdateData : update_inventory(id, data)
    \/ \E id \in 1..MaxId : delete_inventory(id)
    \/ \E t \in MovementTypeInputs, p \in Products, w \in MovementWarehouses,
          q \in MovementQuantities :
            add_stock_movement(t, p, w, q)

Spec == Init /\ [][Next]_vars

\* the ledger after add_inventory has created the record (1, 1) with quantity q
StockedDb(q) ==
    RunTxn([inventory |-> << >>, movements |-> << >>, nextId |-> 1],
           AddStatements([product_id |-> 1, warehouse_id |-> 1, quantity |-> q],
                         Reference("INIT", 0)),
           0).db

NewCall(d, t) ==
    [pc |-> "start", product_id |-> 1, warehouse_id |-> 1,
     adjustment_quantity |-> d, adjustment_type |-> t,
     current_quantity |-> 0, result |-> NoResult]

InitConc ==
    /\ schema \in Schemas
    /\ \E q \in 0..MaxQty :
            /\ inventory = StockedDb(q).inventory
            /\ movements = StockedDb(q).movements
            /\ nextId = StockedDb(q).nextId
    /\ clock = 0
    /\ result = NoResult
    /\ calls \in [Callers -> {NewCall(d, t) : d \in AdjustQuantities, t \in AdjustmentTypes}]
    /\ products = Products
    /\ InitAccounts

NextConc ==
    \/ \E c \in Callers : AdjustRead(c)
    \/ \E c \in Callers : AdjustWrite(c)
    \/ Tick

SpecConc == InitConc /\ [][NextConc]_vars

(***************************************************************************)
(* Properties of the ledger.                                               *)
(***************************************************************************)
RECURSIVE SumQuantity(_)
SumQuantity(rows) ==
    IF rows = << >> THEN 0 ELSE Head(rows).quantity + SumQuantity(Tail(rows))

\* total quantity of product p over the records of the warehouses ws
Total(inv, p, ws) ==
    SumQuantity(SelectSeq(inv, LAMBDA r : r.product_id = p /\ r.warehouse_id \in ws))

LedgerUnchanged == UNCHANGED <<inventory, movements, nextId>>

\* C1: a successful transfer of q units of product p from one warehouse to
\* another leaves the total quantity of p over the two warehouses unchanged,
\* also when the two warehouses are the same one.
C1_TransferConservesTotal ==
    [][\A p \in Products, from \in Warehouses, to \in Warehouses, q \in TransferQuantities :
          (/\ result'.op = "transfer_inventory"
           /\ result'.success
           /\ transfer_inventory(p, from, to, q, 0))
              => Total(inventory', p, {from, to}) = Total(inventory, p, {from, to})]_vars

\* C2: the quantity of every inventory record is at least 0 in every reachable
\* state.
C2_QuantityNonNegative ==
    \A i \in DOMAIN inventory : inventory[i].quantity >= 0

\* C3: a transfer whose product has no record in the source warehouse fails
\* with "Product not found in source warehouse", whatever the quantity; one
\* whose quantity exceeds the source record's quantity fails with "Insufficient
\* inventory" and reports the available and the requested quantity; in both
\* cases nothing is written.
C3_TransferPreconditions ==
    [][\A p \in Products, from \in Warehouses, to \in Warehouses, q \in TransferQuantities :
          LET source == Matching(inventory, p, from)
          IN  /\ (/\ result'.op = "transfer_inventory"
                   /\ source = << >>
                   /\ transfer_inventory(p, from, to, q, 0)) =>
                      /\ result' = Res("transfer_inventory", FALSE,
                                       "Product not found in source warehouse", 0, 0, NoRef)
                      /\ LedgerUnchanged
              /\ (/\ result'.op = "transfer_inventory"
                   /\ source # << >>
                   /\ q > source[1].quantity
                   /\ transfer_inventory(p, from, to, q, 0)) =>
                      /\ result' = Res("transfer_inventory", FALSE, "Insufficient inventory",
                                       source[1].quantity, q, NoRef)
                      /\ LedgerUnchanged]_vars

\* a transfer has just been refused for lack of stock, and the ledger holds stock
C3_Witness ==
    /\ result.op = "transfer_inventory"
    /\ result.message = "Insufficient inventory"
    /\ result.b > result.a
    /\ inventory # << >>

\* C4: a successful transfer appends exactly two movement rows, a TRANSFER_OUT
\* at the source followed by a TRANSFER_IN at the destination, both with the
\* transferred quantity and with the reference number that the call returns.
C4_TransferMovementPair ==
    [][\A p \in Products, from \in Warehouses, to \in Warehouses, q \in TransferQuantities :
          (/\ result'.op = "transfer_inventory"
           /\ result'.success
           /\ transfer_inventory(p, from, to, q, 0)) =>
              movements' = movements \o
                  << Movement(p, from, "TRANSFER_OUT", q, result'.ref),
                     Movement(p, to, "TRANSFER_IN", q, result'.ref) >>]_vars

\* a transfer has just succeeded and its two rows end the log
C4_Witness ==
    /\ result.op = "transfer_inventory"
    /\ result.success
    /\ Len(movements) >= 2
    /\ movements[Len(movements) - 1].movement_type = "TRANSFER_OUT"
    /\ movements[Len(movements)].movement_type = "TRANSFER_IN"
    /\ movements[Len(movements)].reference_number = result.ref

\* C5: when a statement of the transaction of transfer_inventory or of
\* adjust_inventory fails, the call returns success = false and inventory and
\* stock_movements are exactly as they were before the call: a call that
\* returns "Transfer failed" or "Adjustment failed" has changed nothing, and no
\* call in which a statement fails returns success.
C5_FailedTransactionRollsBack ==
    [][/\ (result'.message \in {"Transfer failed", "Adjustment failed"}) =>
            /\ result'.op \in {"transfer_inventory", "adjust_inventory"}
            /\ ~result'.success
            /\ LedgerUnchanged
       /\ (result'.op = "transfer_inventory" /\ result'.success) =>
            \A p \in Products, from \in Warehouses, to \in Warehouses,
               q \in TransferQuantities, fail \in 1..5 :
               ~transfer_inventory(p, from, to, q, fail)
       /\ (result'.op = "adjust_inventory" /\ result'.success) =>
            \A p \in Products, w \in Warehouses, d \in AdjustQuantities,
               t \in AdjustmentTypes, fail \in 0..3 :
               (fail >= 1 \/ ~MovementTypeAllowed(AdjustMovementType(t)))
                   => ~adjust_inventory(p, w, d, t, fail)]_vars

\* a transfer has just failed inside its transaction, on a ledger that holds stock
C5_Witness ==
    /\ result.op = "transfer_inventory"
    /\ result.message = "Transfer failed"
    /\ ~result.success
    /\ \E i \in DOMAIN inventory : inventory[i].quantity > 0

\* C6: an adjustment that would make the record's quantity negative fails with
\* success = false and writes nothing.
C6_NegativeAdjustmentRejected ==
    [][\A p \in Products, w \in Warehouses, d \in AdjustQuantities, t \in AdjustmentTypes :
          (/\ result'.op = "adjust_inventory"
           /\ Matching(inventory, p, w) # << >>
           /\ Matching(inventory, p, w)[1].quantity + d < 0
           /\ adjust_inventory(p, w, d, t, 0)) =>
              /\ ~result'.success
              /\ result'.message = "Adjustment would result in negative inventory"
              /\ LedgerUnchanged]_vars

\* an adjustment has just been refused because it would go below zero
C6_Witness ==
    /\ result.op = "adjust_inventory"
    /\ result.message = "Adjustment would result in negative inventory"
    /\ result.a + result.b < 0
    /\ inventory # << >>

\* the index of the first record of (p, w), the one the adjustment has read
FirstIndex(inv, p, w) ==
    CHOOSE i \in DOMAIN inv :
        Match(inv[i], p, w) /\ \A j \in 1..(i - 1) : ~Match(inv[j], p, w)

\* C7: a successful adjustment by d sets the record's quantity to previous + d,
\* returns previous and new quantity, appends exactly one movement row of type
\* ADJUST_<type> with quantity abs(d), and changes no other inventory record.
C7_AdjustEffect ==
    [][\A p \in Products, w \in Warehouses, d \in AdjustQuantities, t \in AdjustmentTypes :
          (/\ result'.op = "adjust_inventory"
           /\ result'.success
           /\ adjust_inventory(p, w, d, t, 0)) =>
              LET k == FirstIndex(inventory, p, w)
                  previous == inventory[k].quantity
              IN  /\ result'.a = previous
                  /\ result'.b = previous + d
                  /\ movements' = Append(movements,
                        Movement(p, w, "ADJUST_" \o t, Abs(d), result'.ref))
                  /\ DOMAIN inventory' = DOMAIN inventory
                  /\ \A i \in DOMAIN inventory :
                        inventory'[i] = IF i = k
                                        THEN [inventory[i] EXCEPT !.quantity = previous + d]
                                        ELSE inventory[i]]_vars

BothReturned == \A c \in Callers : calls[c].pc = "done"

BothSucceeded == BothReturned /\ \A c \in Callers : calls[c].result.success

\* both calls read the quantity before either of them wrote
Overlapped == calls[1].current_quantity = calls[2].current_quantity

\* C8: two adjustments of the same record that both read before either writes
\* and that both return success leave the record at the quantity read plus the
\* delta of one of them only: the other adjustment is lost.
C8_LostUpdate ==
    (BothSucceeded /\ Overlapped) =>
        LET read == calls[1].current_quantity
            final == Matching(inventory, 1, 1)[1].quantity
        IN  /\ final \in {read + calls[c].adjustment_quantity : c \in Callers}
            /\ final # read + calls[1].adjustment_quantity + calls[2].adjustment_quantity

\* both calls have returned success after reading the same quantity, and the
\* record does not hold the sum of the two deltas
C8_Witness ==
    /\ BothSucceeded
    /\ Overlapped
    /\ Len(movements) >= 2
    /\ Matching(inventory, 1, 1)[1].quantity #
          calls[1].current_quantity + calls[1].adjustment_quantity
                                    + calls[2].adjustment_quantity

\* C9: no two inventory records have the same (product, warehouse) pair.
C9_UniquePair ==
    \A i \in DOMAIN inventory, j \in DOMAIN inventory :
        (i # j) => ~Match(inventory[i], inventory[j].product_id, inventory[j].warehouse_id)

InboundTypes == {"INITIAL", "IN", "TRANSFER_IN", "ADJUSTMENT_IN"}

OutboundTypes == {"OUT", "TRANSFER_OUT", "ADJUSTMENT_OUT", "REMOVED"}

MovementSum(p, w, types) ==
    SumQuantity(SelectSeq(movements,
        LAMBDA m : m.product_id = p /\ m.warehouse_id = w /\ m.movement_type \in types))

\* C10: the quantity of every inventory record equals the sum of the inbound
\* movement rows of its (product, warehouse) pair minus the sum of the outbound
\* ones.
C10_QuantityIsMovementSum ==
    \A i \in DOMAIN inventory :
        inventory[i].quantity =
            MovementSum(inventory[i].product_id, inventory[i].warehouse_id, InboundTypes)
          - MovementSum(inventory[i].product_id, inventory[i].warehouse_id, OutboundTypes)

\* C11: the movement log is append-only: every step leaves the rows already
\* written in place and unchanged, so the log of the next state starts with the
\* whole log of the current one.
C11_LogAppendOnly ==
    [][/\ Len(movements') >= Len(movements)
       /\ SubSeq(movements', 1, Len(movements)) = movements]_vars

\* an inventory record has just been deleted and the rows written for it remain
C11_Witness ==
    /\ result.op = "delete_inventory"
    /\ result.success
    /\ Len(movements) >= 2
    /\ \E i \in DOMAIN movements :
          Matching(inventory, movements[i].product_id, movements[i].warehouse_id) = << >>

(***************************************************************************)
(* The same ledger with calls whose quantity argument is negative: neither *)
(* transfer_inventory nor add_stock_movement validates the sign.           *)
(***************************************************************************)
NegativeQuantities == {-1}

NextNegative ==
    \/ Next
    \/ \E p \in Products, from \in Warehouses, to \in Warehouses, q \in NegativeQuantities :
            transfer_inventory(p, from, to, q, 0)
    \/ \E t \in MovementTypeInputs, p \in Products, w \in MovementWarehouses,
          q \in NegativeQuantities :
            add_stock_movement(t, p, w, q)

SpecNegative == Init /\ [][NextNegative]_vars

\* C12: every movement row in the log has quantity >= 0, whatever integers
\* the operations were called with.
C12_MovementQuantityNonNegative ==
    \A i \in DOMAIN movements : movements[i].quantity >= 0

\* C13: every successful delete_inventory appends, before removing the record,
\* exactly one REMOVED row for the record's (product, warehouse) whose quantity
\* is the record's final quantity, also when that quantity is 0.
C13_DeleteRecordsRemoved ==
    [][\A id \in 1..MaxId :
          (/\ result'.op = "delete_inventory"
           /\ result'.success
           /\ delete_inventory(id)) =>
              LET row == ById(inventory, id)[1]
              IN  /\ Len(movements') = Len(movements) + 1
                  /\ SubSeq(movements', 1, Len(movements)) = movements
                  /\ movements'[Len(movements')].movement_type = "REMOVED"
                  /\ movements'[Len(movements')].product_id = row.product_id
                  /\ movements'[Len(movements')].warehouse_id = row.warehouse_id
                  /\ movements'[Len(movements')].quantity = row.quantity
                  /\ ById(inventory', id) = << >>]_vars

(***************************************************************************)
(* Product deletion (app.py routes), for a logged-in caller.  Neither      *)
(* route touches inventory or stock_movements: foreign keys are declared   *)
(* without ON DELETE and are not enforced.                                 *)
(***************************************************************************)
\* SELECT SUM(quantity) FROM inventory WHERE product_id = ?  ... or 0
TotalStock(inv, p) ==
    SumQuantity(SelectSeq(inv, LAMBDA r : r.product_id = p))

api_delete_product(product_id) ==
    LET total_stock == TotalStock(inventory, product_id)
    IN  /\ Ready
        /\ UNCHANGED <<warehouses, users, session, user_sessions, schema, inventory, movements, nextId, clock, calls>>
        /\ IF total_stock > 0
           THEN /\ result' = Res("api_delete_product", FALSE,
                                 "Cannot delete product with existing inventory",
                                 total_stock, 0, NoRef)
                /\ UNCHANGED products
           ELSE IF product_id \in products
           THEN /\ result' = Res("api_delete_product", TRUE,
                                 "Product deleted successfully", 0, 0, NoRef)
                /\ products' = products \ {product_id}
           ELSE /\ result' = Res("api_delete_product", FALSE, "Product not found",
                                 0, 0, NoRef)
                /\ UNCHANGED products

BulkActions == {"delete", "export"}

bulk_product_action(action, product_ids) ==
    /\ Ready
    /\ UNCHANGED <<warehouses, users, session, user_sessions, schema, inventory, movements, nextId, clock, calls>>
    /\ IF product_ids = {}
       THEN /\ result' = Res("bulk_product_action", FALSE,
                             "Please select an action and products.", 0, 0, NoRef)
            /\ UNCHANGED products
       ELSE IF action = "delete"
       THEN /\ result' = Res("bulk_product_action", TRUE, "product(s) deleted successfully!",
                             Cardinality(product_ids), 0, NoRef)
            /\ products' = products \ product_ids
       ELSE /\ result' = Res("bulk_product_action", TRUE, "products_export.csv",
                             Cardinality(product_ids \cap products), 0, NoRef)
            /\ UNCHANGED products

NextProducts ==
    \/ Next
    \/ \E p \in Products \cup {NoSuchId} : api_delete_product(p)
    \/ \E action \in BulkActions, ids \in SUBSET Products :
            bulk_product_action(action, ids)

SpecProducts == Init /\ [][NextProducts]_vars

\* C14: a step that deletes a product row is taken only when no inventory
\* record of that product holds a quantity greater than 0.
C14_ProductDeletedOnlyWithoutStock ==
    [][\A p \in products \ products' :
          \A i \in DOMAIN inventory :
              inventory[i].product_id = p => inventory[i].quantity <= 0]_vars

(***************************************************************************)
(* The ledger with records that carry their own reserved quantity, reorder *)
(* level and maximum stock level.                                          *)
(***************************************************************************)
ProfileData ==
    {[product_id |-> 1, warehouse_id |-> 1, quantity |-> 1,
      reserved_quantity |-> 1, reorder_level |-> 5, max_stock_level |-> 50],
     [product_id |-> 1, warehouse_id |-> 2, quantity |-> 1,
      reserved_quantity |-> 0, reorder_level |-> 7, max_stock_level |-> 70],
     [product_id |-> 1, warehouse_id |-> 2, quantity |-> 0]}

ReserveData == {[reserved_quantity |-> 2]}

NextProfile ==
    \/ \E data \in ProfileData : add_inventory(data)
    \/ \E id \in 1..MaxId, data \in ReserveData : update_inventory(id, data)
    \/ \E id \in 1..MaxId : delete_inventory(id)
    \/ \E t \in MovementTypeInputs, p \in Products, w \in MovementWarehouses,
          q \in MovementQuantities :
            add_stock_movement(t, p, w, q)
    \/ \E p \in Products, from \in Warehouses, to \in Warehouses,
          q \in TransferQuantities, fail \in 0..5 :
            transfer_inventory(p, from, to, q, fail)

SpecProfile == Init /\ [][NextProfile]_vars

\* the fields of a record that a transfer has no business with
Profile(r) == <<r.id, r.product_id, r.warehouse_id,
                r.reserved_quantity, r.reorder_level, r.max_stock_level>>

\* C15: a transfer leaves reserved_quantity, reorder_level and max_stock_level
\* of every existing record as they are, and it succeeds whenever the source
\* record's quantity covers the requested quantity, whatever is reserved.
C15_TransferIgnoresReserved ==
    [][\A p \in Products, from \in Warehouses, to \in Warehouses, q \in TransferQuantities :
          LET source == Matching(inventory, p, from)
          IN  /\ (/\ result'.op = "transfer_inventory"
                   /\ \E fail \in 0..5 : transfer_inventory(p, from, to, q, fail)) =>
                      /\ Len(inventory') >= Len(inventory)
                      /\ \A i \in DOMAIN inventory :
                            Profile(inventory'[i]) = Profile(inventory[i])
              /\ (/\ result'.op = "transfer_inventory"
                   /\ source # << >>
                   /\ source[1].quantity >= q
                   /\ transfer_inventory(p, from, to, q, 0)) =>
                      result'.success]_vars

\* a transfer has just succeeded and left a record with less than is reserved
C15_Witness ==
    /\ result.op = "transfer_inventory"
    /\ result.success
    /\ \E i \in DOMAIN inventory :
          /\ inventory[i].quantity < inventory[i].reserved_quantity
          /\ \E j \in DOMAIN movements :
                /\ movements[j].movement_type = "TRANSFER_OUT"
                /\ movements[j].warehouse_id = inventory[i].warehouse_id

\* C16: a successful transfer to a warehouse without a record of the product
\* creates exactly one record there, with the transferred quantity, nothing
\* reserved and the source record's reorder and maximum stock levels; a
\* successful transfer to a warehouse with a record creates none and adds the
\* transferred quantity to that record's quantity, changing nothing else of it.
C16_TransferDestination ==
    [][\A p \in Products, from \in Warehouses, to \in Warehouses, q \in TransferQuantities :
          (/\ result'.op = "transfer_inventory"
           /\ result'.success
           /\ transfer_inventory(p, from, to, q, 0)) =>
              LET source == Matching(inventory, p, from)[1]
                  dest == Matching(inventory, p, to)
              IN  IF dest = << >>
                  THEN /\ Len(inventory') = Len(inventory) + 1
                       /\ Len(Matching(inventory', p, to)) = 1
                       /\ inventory'[Len(inventory')] =
                             [id |-> nextId, product_id |-> p, warehouse_id |-> to,
                              quantity |-> q, reserved_quantity |-> 0,
                              reorder_level |-> source.reorder_level,
                              max_stock_level |-> source.max_stock_level]
                  ELSE /\ Len(inventory') = Len(inventory)
                       /\ inventory'[FirstIndex(inventory, p, to)] =
                             [dest[1] EXCEPT !.quantity = @ + q]]_vars

\* a transfer has just created the destination record with the levels of a
\* source record whose levels are not the defaults
C16_Witness ==
    /\ result.op = "transfer_inventory"
    /\ result.success
    /\ Len(inventory) >= 2
    /\ inventory[Len(inventory)].id = nextId - 1
    /\ inventory[Len(inventory)].quantity = result.a
    /\ inventory[Len(inventory)].reorder_level # DefaultReorderLevel
    /\ movements[Len(movements)].warehouse_id = inventory[Len(inventory)].warehouse_id

(***************************************************************************)
(* InventoryPredictor.predict_demand.                                      *)
(*                                                                         *)
(* The movement log is in creation order, so the rows older than the       *)
(* history window are a prefix of a pair's rows; the call is made with the *)
(* length of that prefix.  Averages are kept as <<sum, count>>, predicted  *)
(* demand and the confidence of the fallbacks in hundredths.  The          *)
(* confidence of a moving_average result (a standard deviation) is not     *)
(* carried.                                                                *)
(***************************************************************************)
MaxHistory == 8
MinHistory == 7
RecentWindow == 7
MaxExpired == 1

HistoryRows ==
    {Movement(1, 1, "OUT", 1, NoRef),
     Movement(1, 1, "TRANSFER_OUT", 2, NoRef),
     Movement(1, 1, "IN", 1, NoRef)}

Histories == UNION {[1..n -> HistoryRows] : n \in 0..MaxHistory}

\* the days argument: a number <<n>>, or None
NoneDays == << >>

DaysInputs == {<<30>>, NoneDays}

Hundredths(n) == 100 * n

\* round(num / den, 2), in hundredths; an exact tie is rounded up, where the
\* code's floating-point value may fall on either side
RoundHundredths(num, den) == (200 * num + den) \div (2 * den)

Reverse(seq) == [i \in 1..Len(seq) |-> seq[Len(seq) + 1 - i]]

\* _get_historical_movements: the pair's rows inside the window, newest first;
\* an empty list when the store cannot be read
get_historical_movements(log, p, w, expired, store_fails) ==
    IF store_fails
    THEN << >>
    ELSE LET rows == Matching(log, p, w)
             first == IF expired < Len(rows) THEN expired + 1 ELSE Len(rows) + 1
         IN  Reverse(SubSeq(rows, first, Len(rows)))

OutboundKinds == {"OUT", "TRANSFER_OUT"}

\* daily_movements: the outbound rows of the history, in the history's order
DailyMovements(historical_data) ==
    SelectSeq(historical_data, LAMBDA row : row.movement_type \in OutboundKinds)

\* daily_movements[-7:]
LastSeven(daily_movements) ==
    SubSeq(daily_movements, Len(daily_movements) - RecentWindow + 1, Len(daily_movements))

Mean(rows) == <<SumQuantity(rows), Len(rows)>>

PredictDemand(historical_data, days) ==
    IF Len(historical_data) < MinHistory
    THEN [op |-> "predict_demand", method |-> "default_fallback",
          predicted_demand |-> Hundredths(10), confidence |-> 30]
    ELSE LET daily_movements == DailyMovements(historical_data)
             recent_avg == IF Len(daily_movements) >= RecentWindow
                           THEN Mean(LastSeven(daily_movements))
                           ELSE Mean(daily_movements)
             overall_avg == Mean(daily_movements)
             \* recent_avg * 0.7 + overall_avg * 0.3 as a fraction
             num == 7 * recent_avg[1] * overall_avg[2] + 3 * overall_avg[1] * recent_avg[2]
             den == 10 * recent_avg[2] * overall_avg[2]
         IN  IF daily_movements = << >>
             THEN [op |-> "predict_demand", method |-> "no_outbound_data",
                   predicted_demand |-> Hundredths(5), confidence |-> 40]
             ELSE IF days = NoneDays
             THEN [op |-> "predict_demand", method |-> "error_fallback",
                   predicted_demand |-> Hundredths(15), confidence |-> 30]
             ELSE [op |-> "predict_demand", method |-> "moving_average",
                   predicted_demand |-> RoundHundredths(days[1] * num, den),
                   predicted_daily_demand |-> RoundHundredths(num, den),
                   recent_avg |-> recent_avg,
                   historical_points |-> Len(daily_movements)]

predict_demand(p, w, days, expired, store_fails) ==
    /\ result' = PredictDemand(get_historical_movements(movements, p, w, expired, store_fails),
                               days)
    /\ UNCHANGED <<warehouses, users, session, user_sessions, schema, inventory, movements, nextId, clock, calls, products>>

InitPredict ==
    /\ schema = "app"
    /\ inventory = << >>
    /\ movements \in Histories
    /\ nextId = 1
    /\ clock = 0
    /\ result = NoResult
    /\ calls = << >>
    /\ products = Products
    /\ InitAccounts

NextPredict ==
    \E p \in Products, w \in Warehouses, days \in DaysInputs,
       expired \in 0..MaxExpired, store_fails \in BOOLEAN :
        predict_demand(p, w, days, expired, store_fails)

SpecPredict == InitPredict /\ [][NextPredict]_vars

\* the pair's rows inside the history window, oldest first
WindowRows(p, w, expired) ==
    LET rows == Matching(movements, p, w)
    IN  SubSeq(rows, expired + 1, Len(rows))

\* C17: the recent average of a moving_average prediction is the mean of the 7
\* most recent outbound (OUT or TRANSFER_OUT) rows of the window, the last 7 of
\* the outbound rows ordered oldest to newest, or of all of them when there
\* are fewer than 7.
C17_RecentAverageIsMostRecent ==
    [][\A p \in Products, w \in Warehouses, days \in DaysInputs, expired \in 0..MaxExpired :
          (/\ result'.op = "predict_demand"
           /\ result'.method = "moving_average"
           /\ predict_demand(p, w, days, expired, FALSE)) =>
              LET outbound == DailyMovements(WindowRows(p, w, expired))
              IN  result'.recent_avg =
                      IF Len(outbound) >= 7
                      THEN Mean(SubSeq(outbound, Len(outbound) - 6, Len(outbound)))
                      ELSE Mean(outbound)]_vars

ErrorFallback ==
    [op |-> "predict_demand", method |-> "error_fallback",
     predicted_demand |-> Hundredths(15), confidence |-> 30]

\* C18: a prediction during which something fails, the read of the movement
\* history included, returns the error_fallback result: predicted demand 15,
\* confidence 0.3.
C18_ErrorFallbackOnAnyError ==
    [][\A p \in Products, w \in Warehouses, days \in DaysInputs,
          expired \in 0..MaxExpired, store_fails \in BOOLEAN :
          (/\ result'.op = "predict_demand"
           /\ \/ store_fails
              \/ /\ days = NoneDays
                 /\ Len(WindowRows(p, w, expired)) >= 7
                 /\ DailyMovements(WindowRows(p, w, expired)) # << >>
           /\ predict_demand(p, w, days, expired, store_fails)) =>
              result' = ErrorFallback]_vars

\* C19: a prediction returns default_fallback, with predicted demand 10 and
\* confidence 0.3, exactly when the pair has fewer than 7 rows of any kind in
\* the history window.
C19_DefaultFallbackIffShortHistory ==
    [][\A p \in Products, w \in Warehouses, days \in DaysInputs,
          expired \in 0..MaxExpired, store_fails \in BOOLEAN :
          (/\ result'.op = "predict_demand"
           /\ predict_demand(p, w, days, expired, store_fails)) =>
              IF Len(WindowRows(p, w, expired)) < 7
              THEN result' = [op |-> "predict_demand", method |-> "default_fallback",
                              predicted_demand |-> Hundredths(10), confidence |-> 30]
              ELSE result'.method # "default_fallback"]_vars

\* C20: a prediction with a number of days on a window of at least 7 rows
\* returns no_outbound_data, with predicted demand 5 and confidence 0.4, when
\* none of the rows is an OUT or TRANSFER_OUT row, and moving_average when one
\* of them is.
C20_NoOutboundData ==
    [][\A p \in Products, w \in Warehouses, days \in DaysInputs \ {NoneDays},
          expired \in 0..MaxExpired, store_fails \in BOOLEAN :
          (/\ result'.op = "predict_demand"
           /\ Len(WindowRows(p, w, expired)) >= 7
           /\ predict_demand(p, w, days, expired, store_fails)) =>
              IF DailyMovements(WindowRows(p, w, expired)) = << >>
              THEN result' = [op |-> "predict_demand", method |-> "no_outbound_data",
                              predicted_demand |-> Hundredths(5), confidence |-> 40]
              ELSE result'.method = "moving_average"]_vars

(***************************************************************************)
(* InventoryPredictor.get_reorder_recommendation.                          *)
(*                                                                         *)
(* The call reads the first record of the pair joined with its product,    *)
(* asks predict_demand for 30 days and returns a recommendation; it writes *)
(* nothing.  The ledgers it is run on hold at most one record, with stock  *)
(* figures drawn from small ranges, and the example record of the          *)
(* documentation (quantity 12, reorder level 20, maximum 200).             *)
(***************************************************************************)
MaxStock == 3
MaxLevel == 5
PredictionDays == 30

ExampleRecord == [id |-> 1, product_id |-> 1, warehouse_id |-> 1, quantity |-> 12,
                  reserved_quantity |-> 0, reorder_level |-> 20, max_stock_level |-> 200]

ReorderRecords ==
    {ExampleRecord} \cup
    {[id |-> 1, product_id |-> 1, warehouse_id |-> 1, quantity |-> q,
      reserved_quantity |-> r, reorder_level |-> l, max_stock_level |-> m] :
        q \in 0..MaxStock, r \in 0..1, l \in 0..MaxStock, m \in 0..MaxLevel}

\* histories of the pair: none, and seven outbound rows of one unit
ReorderHistories == {<< >>, [i \in 1..MinHistory |-> Movement(1, 1, "OUT", 1, NoRef)]}

\* Python's round(num / den): to the nearest integer, an exact tie to the even one
Round(num, den) ==
    LET q == num \div den
        r == num % den
    IN  IF 2 * r < den THEN q
        ELSE IF 2 * r > den THEN q + 1
        ELSE IF q % 2 = 0 THEN q ELSE q + 1

\* SELECT ... FROM inventory i JOIN products p ON i.product_id = p.id
\* WHERE i.product_id = ? AND i.warehouse_id = ?
JoinedInventory(p, w) ==
    SelectSeq(Matching(inventory, p, w), LAMBDA r : r.product_id \in products)

ReorderDueBelow(available_qty, reorder_level) == available_qty < reorder_level

\* available_qty <= reorder_level
ReorderDue(available_qty, reorder_level) == available_qty <= reorder_level

\* 'high' if available_qty <= reorder_level * 0.5 else 'medium'
Urgency(available_qty, reorder_level) ==
    IF 2 * available_qty <= reorder_level THEN "high" ELSE "medium"

\* round(max_level * 0.8 - available_qty)
RecommendedQuantity(max_level, available_qty) ==
    Round(4 * max_level - 5 * available_qty, 5)

\* the recommendation for the fetched rows and the prediction of 30 days'
\* demand (in hundredths)
ReorderRecommendation(rows, predicted_demand) ==
    IF rows = << >>
    THEN [op |-> "reorder", found |-> FALSE, should_reorder |-> FALSE,
          message |-> "Product not found in inventory"]
    ELSE LET current_qty == rows[1].quantity
             reorder_level == rows[1].reorder_level
             available_qty == current_qty - rows[1].reserved_quantity
         IN  IF ReorderDue(available_qty, reorder_level)
             THEN [op |-> "reorder", found |-> TRUE, should_reorder |-> TRUE,
                   recommended_quantity |->
                       RecommendedQuantity(rows[1].max_stock_level, available_qty),
                   current_stock |-> current_qty,
                   available_stock |-> available_qty,
                   predicted_demand_30_days |-> Round(predicted_demand, 100),
                   safety_stock |-> Round(predicted_demand, 500),
                   urgency |-> Urgency(available_qty, reorder_level),
                   message |-> "Reorder recommended"]
             ELSE IF predicted_demand = 0
             THEN [op |-> "reorder", found |-> TRUE, should_reorder |-> FALSE,
                   message |-> "Error generating recommendation"]
             ELSE LET days == Round(PredictionDays * 100 * (available_qty - reorder_level),
                                    predicted_demand)
                  IN  [op |-> "reorder", found |-> TRUE, should_reorder |-> FALSE,
                       current_stock |-> current_qty,
                       available_stock |-> available_qty,
                       predicted_demand_30_days |-> Round(predicted_demand, 100),
                       days_until_reorder |-> IF days < 1 THEN 1 ELSE days,
                       message |-> "No reorder needed"]

get_reorder_recommendation(p, w, expired, store_fails) ==
    /\ result' = ReorderRecommendation(
                     JoinedInventory(p, w),
                     PredictDemand(get_historical_movements(movements, p, w, expired,
                                                            store_fails),
                                   <<PredictionDays>>).predicted_demand)
    /\ UNCHANGED <<warehouses, users, session, user_sessions, schema, inventory, movements, nextId, clock, calls, products>>

InitReorder ==
    /\ schema = "app"
    /\ inventory \in {<< >>} \cup {<<r>> : r \in ReorderRecords}
    /\ movements \in ReorderHistories
    /\ nextId = 2
    /\ clock = 0
    /\ result = NoResult
    /\ calls = << >>
    /\ products \in {Products, {}}
    /\ InitAccounts

NextReorder ==
    \E p \in Products, w \in Warehouses, expired \in 0..MaxExpired, store_fails \in BOOLEAN :
        get_reorder_recommendation(p, w, expired, store_fails)

SpecReorder == InitReorder /\ [][NextReorder]_vars

\* the rule of a recommendation for the record rec: due exactly when the
\* available quantity is at most the reorder level; when due, urgency high
\* exactly at or below half the reorder level, and the recommended quantity
\* the integer nearest to 0.8 * max_stock_level - available
C21_Rule(res, rec) ==
    LET available == rec.quantity - rec.reserved_quantity
    IN  /\ res.should_reorder <=> available <= rec.reorder_level
        /\ res.should_reorder =>
              /\ res.urgency = "high" <=> 2 * available <= rec.reorder_level
              /\ res.urgency \in {"high", "medium"}
              /\ 2 * Abs(5 * res.recommended_quantity
                         - (4 * rec.max_stock_level - 5 * available)) < 5

\* C21: a recommendation for the record the call fetches, the first record of
\* the pair whose product exists, is due (should_reorder true) exactly when
\* available = quantity - reserved_quantity is at most the
\* reorder level; a due recommendation has urgency 'high' exactly when
\* available <= 0.5 * reorder_level and 'medium' otherwise, and recommends
\* 0.8 * max_stock_level - available rounded to an integer.  Quantity 12,
\* reorder level 20 and maximum 200 give MEDIUM urgency (12 > 10) and 148.
C21_ReorderRecommendation ==
    [][\A p \in Products, w \in Warehouses, expired \in 0..MaxExpired, store_fails \in BOOLEAN :
          (/\ result'.op = "reorder"
           /\ result'.found
           /\ get_reorder_recommendation(p, w, expired, store_fails)) =>
              LET rec == JoinedInventory(p, w)[1]
              IN  /\ C21_Rule(result', rec)
                  /\ rec = ExampleRecord =>
                        /\ result'.urgency = "medium"
                        /\ result'.recommended_quantity = 148]_vars

C21_Witness ==
    /\ result.op = "reorder"
    /\ result.found
    /\ result.should_reorder
    /\ inventory = <<ExampleRecord>>
    /\ result.urgency = "medium"
    /\ result.recommended_quantity = 148

\* C21 as stated: the same rule, with quantity 12, reorder level 20 and
\* maximum 200 giving HIGH urgency and 148.
C21_AsStated ==
    [][\A p \in Products, w \in Warehouses, expired \in 0..MaxExpired, store_fails \in BOOLEAN :
          (/\ result'.op = "reorder"
           /\ result'.found
           /\ get_reorder_recommendation(p, w, expired, store_fails)) =>
              LET rec == JoinedInventory(p, w)[1]
              IN  /\ C21_Rule(result', rec)
                  /\ rec = ExampleRecord =>
                        /\ result'.urgency = "high"
                        /\ result'.recommended_quantity = 148]_vars

\* C30: a due recommendation (should_reorder true) recommends a quantity
\* greater than 0, whatever non-negative quantity, reserved quantity, reorder
\* level and maximum the record holds.
C30_RecommendedQuantityPositive ==
    (result.op = "reorder" /\ result.should_reorder) => result.recommended_quantity > 0

(***************************************************************************)
(* WarehouseController.get_warehouse_capacity_report.                      *)
(*                                                                         *)
(* The report has one entry per warehouse, computed from the warehouse's   *)
(* capacity and the inventory records joined to it; the call writes        *)
(* nothing.  Utilization is kept as the fraction <<100 * total, capacity>> *)
(* and reported in hundredths of a percent.                                *)
(***************************************************************************)
MaxLoad == 4
CriticalUtilization == 90
WarningUtilization == 75

\* quantities of the records the report is run on, a negative one included
LoadQuantities == {3 * k : k \in -1..MaxLoad}

LoadRecords ==
    {[id |-> 1, product_id |-> 1, warehouse_id |-> w, quantity |-> q,
      reserved_quantity |-> DefaultReserved, reorder_level |-> DefaultReorderLevel,
      max_stock_level |-> DefaultMaxStockLevel] : w \in Warehouses, q \in LoadQuantities}

LoadLedgers ==
    {<< >>} \cup {<<r>> : r \in LoadRecords}
            \cup {<<r1, [r2 EXCEPT !.id = 2]>> : r1 \in LoadRecords, r2 \in LoadRecords}

CapacityInputs == {Null, <<0>>, <<10>>, <<12>>}

\* LEFT JOIN inventory i ON w.id = i.warehouse_id
WarehouseRows(w) == SelectSeq(inventory, LAMBDA r : r.warehouse_id = w)

CapacityStatusAbove(num, den) ==
    IF num > CriticalUtilization * den THEN "CRITICAL"
    ELSE IF num > WarningUtilization * den THEN "WARNING"
    ELSE "NORMAL"

\* the status of the utilization num / den (den > 0)
CapacityStatus(num, den) ==
    IF num >= CriticalUtilization * den THEN "CRITICAL"
    ELSE IF num >= WarningUtilization * den THEN "WARNING"
    ELSE "NORMAL"

CapacityEntry(w) ==
    LET rows == WarehouseRows(w)
        capacity == warehouses[w]
        total_items == SumQuantity(rows)
        sized == capacity # Null /\ capacity[1] > 0
        utilization == IF sized THEN <<100 * total_items, capacity[1]>> ELSE <<0, 1>>
        available_capacity == IF sized THEN capacity[1] - total_items
                              ELSE IF capacity = Null THEN 0 ELSE capacity[1]
    IN  [warehouse_id |-> w,
         capacity |-> capacity,
         total_items |-> total_items,
         unique_products |-> Cardinality({rows[i].product_id : i \in DOMAIN rows}),
         low_stock_items |->
             Len(SelectSeq(rows, LAMBDA r : r.quantity <= r.reorder_level)),
         utilization_percentage |-> RoundHundredths(utilization[1], utilization[2]),
         available_capacity |-> IF available_capacity < 0 THEN 0 ELSE available_capacity,
         capacity_status |-> CapacityStatus(utilization[1], utilization[2])]

get_warehouse_capacity_report ==
    /\ result' = [op |-> "capacity_report",
                  report |-> [w \in DOMAIN warehouses |-> CapacityEntry(w)]]
    /\ UNCHANGED <<warehouses, users, session, user_sessions, schema, inventory, movements,
                   nextId, clock, calls, products>>

InitCapacity ==
    /\ schema = "app"
    /\ inventory \in LoadLedgers
    /\ movements = << >>
    /\ nextId = 3
    /\ clock = 0
    /\ result = NoResult
    /\ calls = << >>
    /\ products = Products
    /\ warehouses \in [Warehouses -> CapacityInputs]
    /\ users = <<DefaultAdmin>>
    /\ session = [b \in Browsers |-> ClearedSession]
    /\ user_sessions = << >>

NextCapacity == get_warehouse_capacity_report

SpecCapacity == InitCapacity /\ [][NextCapacity]_vars

\* C22: in a capacity report a warehouse is CRITICAL exactly when its
\* utilization total_items / capacity * 100 is at least 90, WARNING exactly
\* when it is at least 75 and below 90, and NORMAL otherwise; a warehouse
\* without a capacity, or with capacity 0, has utilization 0, available
\* capacity 0 and status NORMAL; no reported available capacity is negative.
C22_CapacityStatus ==
    result.op = "capacity_report" =>
        \A w \in Warehouses :
            LET entry == result.report[w]
                total == Total(inventory, 1, {w})
            IN  /\ entry.available_capacity >= 0
                /\ IF warehouses[w] = Null \/ warehouses[w] = <<0>>
                   THEN /\ entry.utilization_percentage = 0
                        /\ entry.available_capacity = 0
                        /\ entry.capacity_status = "NORMAL"
                   ELSE LET capacity == warehouses[w][1]
                        IN  /\ entry.capacity_status = "CRITICAL"
                                <=> 100 * total >= 90 * capacity
                            /\ entry.capacity_status = "WARNING"
                                <=> /\ 100 * total >= 75 * capacity
                                    /\ 100 * total < 90 * capacity
                            /\ entry.capacity_status \in {"CRITICAL", "WARNING", "NORMAL"}

C22_Witness ==
    /\ result.op = "capacity_report"
    /\ warehouses[1] = <<10>>
    /\ Total(inventory, 1, {1}) = 9
    /\ result.report[1].capacity_status = "CRITICAL"
    /\ result.report[1].utilization_percentage = 9000
    /\ warehouses[2] = Null
    /\ Total(inventory, 1, {2}) = 3
    /\ result.report[2].capacity_status = "NORMAL"

(***************************************************************************)
(* WarehouseController.optimize_inventory_distribution.                    *)
(*                                                                         *)
(* The query groups the inventory records by product; a group's rows are   *)
(* taken in rowid order, which is also the order GROUP_CONCAT lists them   *)
(* in.  Averages are compared as fractions: max - min > avg * 0.5 is       *)
(* 2 * count * (max - min) > sum.  A warehouse's name stands for its id.   *)
(* The ledgers the call is run on hold up to three records over three      *)
(* warehouses: one record per pair under setup_database.py's schema, and   *)
(* also several records of a pair under app.py's schema (C9).              *)
(***************************************************************************)
MaxSpread == 4
MaxRecords == 3

OptimizeWarehouses == {1, 2, 3}

OptimizeRecords ==
    {[product_id |-> 1, warehouse_id |-> w, quantity |-> q,
      reserved_quantity |-> DefaultReserved, reorder_level |-> DefaultReorderLevel,
      max_stock_level |-> DefaultMaxStockLevel] : w \in OptimizeWarehouses, q \in 0..MaxSpread}

\* the ledgers of at most MaxRecords records, ids in rowid order
OptimizeLedgers(unique) ==
    LET rows == UNION {[1..n -> OptimizeRecords] : n \in 0..MaxRecords}
        numbered(l) == [i \in DOMAIN l |->
                           [id |-> i, product_id |-> l[i].product_id,
                            warehouse_id |-> l[i].warehouse_id, quantity |-> l[i].quantity,
                            reserved_quantity |-> l[i].reserved_quantity,
                            reorder_level |-> l[i].reorder_level,
                            max_stock_level |-> l[i].max_stock_level]]
    IN  {numbered(l) : l \in {l \in rows :
            unique => \A i, j \in DOMAIN l : i # j => l[i].warehouse_id # l[j].warehouse_id}}

\* FROM inventory i JOIN products p ON i.product_id = p.id
\*                  JOIN warehouses w ON i.warehouse_id = w.id, for one product
ProductRows(p) ==
    SelectSeq(inventory, LAMBDA r : /\ r.product_id = p
                                    /\ p \in products
                                    /\ r.warehouse_id \in DOMAIN warehouses)

MaxQuantity(rows) ==
    CHOOSE q \in {rows[i].quantity : i \in DOMAIN rows} :
        \A i \in DOMAIN rows : rows[i].quantity <= q

MinQuantity(rows) ==
    CHOOSE q \in {rows[i].quantity : i \in DOMAIN rows} :
        \A i \in DOMAIN rows : rows[i].quantity >= q

\* HAVING COUNT(w.id) > 1 AND (MAX(i.quantity) - MIN(i.quantity)) > avg_quantity * 0.5
Having(rows) ==
    /\ Len(rows) > 1
    /\ 2 * Len(rows) * (MaxQuantity(rows) - MinQuantity(rows)) > SumQuantity(rows)

\* warehouse_data.sort(key=quantity): the sort is stable, so the last entry is
\* the last row holding the maximum and the first entry the first row holding
\* the minimum
Highest(rows) ==
    rows[CHOOSE i \in DOMAIN rows :
            /\ rows[i].quantity = MaxQuantity(rows)
            /\ \A j \in DOMAIN rows : rows[j].quantity = MaxQuantity(rows) => j <= i]

Lowest(rows) ==
    rows[CHOOSE i \in DOMAIN rows :
            /\ rows[i].quantity = MinQuantity(rows)
            /\ \A j \in DOMAIN rows : rows[j].quantity = MinQuantity(rows) => i <= j]

\* int(x / 2): the quotient truncated towards zero
HalfTruncated(x) == IF x >= 0 THEN x \div 2 ELSE -((-x) \div 2)

\* int((highest['quantity'] - lowest['quantity']) / 2)
SuggestedTransfer(difference) == HalfTruncated(difference)

\* 'HIGH' if quantity_difference > avg_quantity * 2 else 'MEDIUM'
Priority(rows) ==
    IF Len(rows) * (MaxQuantity(rows) - MinQuantity(rows)) > 2 * SumQuantity(rows)
    THEN "HIGH" ELSE "MEDIUM"

Suggestion(p, rows) ==
    [product_id |-> p,
     from_warehouse |-> Highest(rows).warehouse_id,
     to_warehouse |-> Lowest(rows).warehouse_id,
     current_from_quantity |-> Highest(rows).quantity,
     current_to_quantity |-> Lowest(rows).quantity,
     suggested_transfer |-> SuggestedTransfer(Highest(rows).quantity - Lowest(rows).quantity),
     priority |-> Priority(rows)]

\* the suggestions, one per product that passes the HAVING clause
Suggestions ==
    [p \in {p \in Products : Having(ProductRows(p))} |-> Suggestion(p, ProductRows(p))]

optimize_inventory_distribution ==
    /\ result' = [op |-> "optimize", suggestions |-> Suggestions]
    /\ UNCHANGED <<warehouses, users, session, user_sessions, schema, inventory, movements,
                   nextId, clock, calls, products>>

InitOptimize ==
    /\ schema \in Schemas
    /\ inventory \in OptimizeLedgers(schema = "setup")
    /\ movements = << >>
    /\ nextId = Len(inventory) + 1
    /\ clock = 0
    /\ result = NoResult
    /\ calls = << >>
    /\ products = Products
    /\ warehouses = [w \in OptimizeWarehouses |-> <<DefaultCapacity>>]
    /\ users = <<DefaultAdmin>>
    /\ session = [b \in Browsers |-> ClearedSession]
    /\ user_sessions = << >>

NextOptimize == optimize_inventory_distribution

SpecOptimize == InitOptimize /\ [][NextOptimize]_vars

\* the same calls on ledgers of setup_database.py's schema only
InitOptimizeSetup == InitOptimize /\ schema = "setup"

SpecOptimizeSetup == InitOptimizeSetup /\ [][NextOptimize]_vars

\* the warehouses holding a record of product p
Holders(p) == {inventory[i].warehouse_id : i \in {i \in DOMAIN inventory :
                                                   inventory[i].product_id = p}}

\* the quantities of the records of product p
Held(p) == {inventory[i].quantity : i \in {i \in DOMAIN inventory :
                                            inventory[i].product_id = p}}

\* C23: a suggestion is emitted for a product exactly when the product has
\* records in more than one warehouse and max - min > 0.5 * avg over those
\* records; it moves floor((max - min) / 2) units from a warehouse holding the
\* maximum to one holding the minimum, with priority HIGH exactly when
\* max - min > 2 * avg and MEDIUM otherwise.
C23_SuggestionRule ==
    result.op = "optimize" =>
        \A p \in Products :
            LET rows == SelectSeq(inventory, LAMBDA r : r.product_id = p)
                max == MaxQuantity(rows)
                min == MinQuantity(rows)
            IN  /\ p \in DOMAIN result.suggestions
                    <=> /\ Cardinality(Holders(p)) > 1
                        /\ 2 * Len(rows) * (max - min) > SumQuantity(rows)
                /\ p \in DOMAIN result.suggestions =>
                      LET s == result.suggestions[p]
                      IN  /\ s.suggested_transfer = (max - min) \div 2
                          /\ \E i \in DOMAIN rows : /\ rows[i].warehouse_id = s.from_warehouse
                                                    /\ rows[i].quantity = max
                          /\ \E i \in DOMAIN rows : /\ rows[i].warehouse_id = s.to_warehouse
                                                    /\ rows[i].quantity = min
                          /\ s.priority = IF Len(rows) * (max - min) > 2 * SumQuantity(rows)
                                          THEN "HIGH" ELSE "MEDIUM"

\* C28: every suggestion has 1 <= suggested_transfer <= current_from_quantity,
\* and moving that amount leaves the quantity of the warehouse that held the
\* maximum at least that of the one that held the minimum, the two differing
\* by at most 1.
C28_SuggestedTransferExecutable ==
    result.op = "optimize" =>
        \A p \in DOMAIN result.suggestions :
            LET s == result.suggestions[p]
                from_after == s.current_from_quantity - s.suggested_transfer
                to_after == s.current_to_quantity + s.suggested_transfer
            IN  /\ 1 <= s.suggested_transfer
                /\ s.suggested_transfer <= s.current_from_quantity
                /\ from_after >= to_after
                /\ from_after - to_after <= 1

\* C29: a product held in exactly two warehouses, with no negative quantity,
\* never gets a suggestion of priority HIGH.
C29_TwoWarehousesNeverHigh ==
    result.op = "optimize" =>
        \A p \in DOMAIN result.suggestions :
            (/\ Cardinality(Holders(p)) = 2
             /\ \A q \in Held(p) : q >= 0) =>
                result.suggestions[p].priority # "HIGH"

\* C24: on a ledger of either schema the repository creates, an adjustment of
\* an existing record that leaves its quantity at 0 or more, with no failure of
\* the database during the call, succeeds: the record holds the previous
\* quantity plus the delta and the log ends with the call's ADJUST_<type> row.
C24_AdjustPreconditions ==
    [][\A p \in Products, w \in Warehouses, d \in AdjustQuantities, t \in AdjustmentTypes :
          (/\ result'.op = "adjust_inventory"
           /\ Matching(inventory, p, w) # << >>
           /\ Matching(inventory, p, w)[1].quantity + d >= 0
           /\ adjust_inventory(p, w, d, t, 0)) =>
              LET k == FirstIndex(inventory, p, w)
              IN  /\ result'.success
                  /\ inventory'[k].quantity = inventory[k].quantity + d
                  /\ movements' = Append(movements,
                        Movement(p, w, "ADJUST_" \o t, Abs(d), result'.ref))]_vars

(***************************************************************************)
(* WarehouseController.get_transfer_history.                               *)
(*                                                                         *)
(* The call is run on the logs successful transfers leave: each transfer   *)
(* appends the two rows of TransferMovements in one transaction, with the  *)
(* reference of the second it ran in.  As for predict_demand, the rows     *)
(* older than the look-back window are a prefix of the log.  The rows'     *)
(* user_id is that of an existing user, so the join with users keeps them. *)
(***************************************************************************)
MaxTransfers == 2

\* the arguments and the second of a successful transfer
TransferCalls ==
    {c \in [product_id : Products, from_warehouse_id : Warehouses,
            to_warehouse_id : Warehouses, quantity : 1..MaxQty, now : 0..MaxClock] :
        c.from_warehouse_id # c.to_warehouse_id}

TransferRows(c) ==
    LET stmts == TransferMovements(c.product_id, c.from_warehouse_id, c.to_warehouse_id,
                                   c.quantity, Reference("TRANSFER", c.now))
    IN  <<stmts[1].row, stmts[2].row>>

RECURSIVE TransferLog(_)
TransferLog(cs) ==
    IF cs = << >> THEN << >> ELSE TransferRows(Head(cs)) \o TransferLog(Tail(cs))

\* the transfers of a log, in the order of the clock
TransferSequences ==
    {cs \in UNION {[1..n -> TransferCalls] : n \in 0..MaxTransfers} :
        \A i, j \in DOMAIN cs : i <= j => cs[i].now <= cs[j].now}

\* the warehouse_id argument: <<id>>, or None
WarehouseFilters == {Null} \cup {<<w>> : w \in Warehouses}

\* FROM stock_movements sm1 JOIN stock_movements sm2
\*      ON sm1.reference_number = sm2.reference_number ... WHERE ...
JoinedTransfer(log, expired, filter, i, j) ==
    /\ log[i].reference_number = log[j].reference_number
    /\ log[i].movement_type = "TRANSFER_OUT"
    /\ log[j].movement_type = "TRANSFER_IN"
    /\ log[i].product_id \in products
    /\ log[i].warehouse_id \in DOMAIN warehouses
    /\ log[j].warehouse_id \in DOMAIN warehouses
    /\ i > expired
    /\ filter # Null => (log[i].warehouse_id = filter[1] \/ log[j].warehouse_id = filter[1])

TransferRecord(sm1, sm2) ==
    [product_id |-> sm1.product_id, from_warehouse_id |-> sm1.warehouse_id,
     to_warehouse_id |-> sm2.warehouse_id, quantity |-> sm1.quantity,
     reference_number |-> sm1.reference_number]

\* the joined rows from row i of sm1 down and, for sm1 = row i, from row j of
\* sm2 up: ORDER BY sm1.created_at DESC
RECURSIVE TransferHistory(_, _, _, _, _)
TransferHistory(log, expired, filter, i, j) ==
    IF i = 0 THEN << >>
    ELSE IF j > Len(log) THEN TransferHistory(log, expired, filter, i - 1, 1)
    ELSE (IF JoinedTransfer(log, expired, filter, i, j)
          THEN <<TransferRecord(log[i], log[j])>> ELSE << >>)
         \o TransferHistory(log, expired, filter, i, j + 1)

get_transfer_history(warehouse_id, expired) ==
    /\ result' = [op |-> "transfer_history",
                  transfers |-> TransferHistory(movements, expired, warehouse_id,
                                                Len(movements), 1)]
    /\ UNCHANGED <<warehouses, users, session, user_sessions, schema, inventory, movements,
                   nextId, clock, calls, products>>

InitHistory ==
    /\ schema \in Schemas
    /\ inventory = << >>
    /\ movements \in {TransferLog(cs) : cs \in TransferSequences}
    /\ nextId = 1
    /\ clock = MaxClock
    /\ result = NoResult
    /\ calls = << >>
    /\ products = Products
    /\ InitAccounts

NextHistory ==
    \E warehouse_id \in WarehouseFilters, expired \in 0..MaxExpired :
        get_transfer_history(warehouse_id, expired)

SpecHistory == InitHistory /\ [][NextHistory]_vars

\* number of entries of seq equal to v
Count(seq, v) == Len(SelectSeq(seq, LAMBDA x : x = v))

\* the record of the transfer whose rows are rows 2k - 1 and 2k of the log
OwnRecord(k) == TransferRecord(movements[2 * k - 1], movements[2 * k])

\* C25: a transfer history without a warehouse filter has exactly one record
\* per transfer whose TRANSFER_OUT row is inside the look-back window, made of
\* that transfer's own two rows, also when several transfers ran in the same
\* second.
C25_OneRecordPerTransfer ==
    [][\A expired \in 0..MaxExpired :
          (/\ result'.op = "transfer_history"
           /\ get_transfer_history(Null, expired)) =>
              LET inside == {k \in 1..(Len(movements) \div 2) : 2 * k - 1 > expired}
              IN  /\ Len(result'.transfers) = Cardinality(inside)
                  /\ \A k \in inside :
                        Count(result'.transfers, OwnRecord(k))
                            = Cardinality({n \in inside : OwnRecord(n) = OwnRecord(k)})]_vars

(***************************************************************************)
(* The login, logout and register routes of app.py.                        *)
(*                                                                         *)
(* Each browser has its own Flask session.  The administrator's browser    *)
(* is the one whose user knows the default administrator's password; the   *)
(* visitor types only passwords of accounts registered through the form.   *)
(* A database is used either by visitors alone or by both.                 *)
(***************************************************************************)
MinPasswordLength == 6
MinUsernameLength == 3
MaxUsernameLength == 50

Usernames == {"bob", "eve", "admin"}
Emails == {"bob@example.com", "eve@example.com"}
FormPasswords == {"secret1"}

\* the role field of the form: <<role>>, or absent
FormRoles == {Null, <<"admin">>, <<"manager">>, <<"employee">>}

\* forms that pass the validation, and one form for each way of failing it
ValidForms ==
    [full_name : {"A User"}, username : {"bob", "eve"}, email : Emails,
     password : {"secret1"}, confirm_password : {"secret1"}, role : FormRoles]

InvalidForms ==
    LET form == [full_name |-> "A User", username |-> "eve", email |-> "eve@example.com",
                 password |-> "secret1", confirm_password |-> "secret1",
                 role |-> <<"admin">>]
    IN  {[form EXCEPT !.full_name = ""],
         [form EXCEPT !.confirm_password = "secret2"],
         [form EXCEPT !.password = "short", !.confirm_password = "short"],
         [form EXCEPT !.username = "al"],
         [form EXCEPT !.username = "admin"]}

RegisterForms == ValidForms \cup InvalidForms

\* the passwords a browser's user types at login
TypedPasswords(b) ==
    IF b = "administrator" THEN FormPasswords \cup {"admin123"} ELSE FormPasswords

\* session.get('role')
SessionRole(s) == IF "role" \in s.keys THEN <<s.role>> ELSE Null

\* SELECT ... FROM users WHERE username = ?
UsersNamed(username) == SelectSeq(users, LAMBDA u : u.username = username)

login(b, username, password) ==
    LET found == UsersNamed(username)
        ok == found # << >> /\ check_password_hash(found[1].password_hash, password)
    IN  /\ session' = IF ok
                      THEN [session EXCEPT ![b] =
                               [session[b] EXCEPT
                                   !.keys = @ \cup {"user_id", "username", "role"},
                                   !.user_id = found[1].id, !.username = username,
                                   !.role = found[1].role]]
                      ELSE session
        /\ result' = [op |-> "login", success |-> ok, browser |-> b]
        /\ UNCHANGED <<warehouses, users, user_sessions, schema, inventory, movements,
                       nextId, clock, calls, products>>

logout(b) ==
    /\ session' = [session EXCEPT ![b] = ClearedSession]
    /\ result' = [op |-> "logout", success |-> TRUE, browser |-> b]
    /\ UNCHANGED <<warehouses, users, user_sessions, schema, inventory, movements,
                   nextId, clock, calls, products>>

\* the validation of the form; "" when it passes
FormError(form) ==
    IF \E f \in {"full_name", "username", "email", "password", "confirm_password"} :
           form[f] = ""
    THEN "All fields are required."
    ELSE IF form.password # form.confirm_password THEN "Passwords do not match."
    ELSE IF Len(form.password) < MinPasswordLength
    THEN "Password must be at least 6 characters long."
    ELSE IF Len(form.username) < MinUsernameLength \/ Len(form.username) > MaxUsernameLength
    THEN "Username must be 3-50 characters long."
    ELSE ""

RegisteredRoleAsSubmitted(session_role, submitted) ==
    IF submitted = Null THEN "employee" ELSE submitted[1]

\* role = request.form.get('role', 'employee'), and 'employee' for every
\* session whose role is not 'admin'
RegisteredRole(session_role, submitted) ==
    IF session_role # <<"admin">> THEN "employee"
    ELSE IF submitted = Null THEN "employee" ELSE submitted[1]

\* SELECT username, email FROM users WHERE username = ? OR email = ?
ExistingUser(form) ==
    SelectSeq(users, LAMBDA u : u.username = form.username \/ u.email = form.email)

register(b, form) ==
    LET role == RegisteredRole(SessionRole(session[b]), form.role)
        failed(message) == [op |-> "register", success |-> FALSE, browser |-> b,
                            message |-> message]
    IN  /\ UNCHANGED <<warehouses, session, user_sessions, schema, inventory, movements,
                       nextId, clock, calls, products>>
        /\ IF FormError(form) # ""
           THEN /\ result' = failed(FormError(form))
                /\ UNCHANGED users
           ELSE IF ExistingUser(form) # << >>
           THEN /\ result' = failed(IF ExistingUser(form)[1].username = form.username
                                    THEN "Username already exists."
                                    ELSE "Email address already registered.")
                /\ UNCHANGED users
           ELSE /\ users' = Append(users,
                       [id |-> Len(users) + 1, username |-> form.username,
                        email |-> form.email,
                        password_hash |-> generate_password_hash(form.password),
                        role |-> role])
                /\ result' = [op |-> "register", success |-> TRUE, browser |-> b,
                              message |-> "Registration successful!",
                              submitted |-> form.role]

InitRegister ==
    /\ schema = "app"
    /\ inventory = << >>
    /\ movements = << >>
    /\ nextId = 1
    /\ clock = 0
    /\ result = NoResult
    /\ calls = << >>
    /\ products = Products
    /\ warehouses = [w \in Warehouses |-> <<DefaultCapacity>>]
    /\ users = <<DefaultAdmin>>
    /\ session \in {[b \in bs |-> ClearedSession] : bs \in {{"visitor"}, Browsers}}
    /\ user_sessions = << >>

NextRegister ==
    \/ \E b \in DOMAIN session, username \in Usernames :
            \E password \in TypedPasswords(b) : login(b, username, password)
    \/ \E b \in DOMAIN session : logout(b)
    \/ \E b \in DOMAIN session, form \in RegisterForms : register(b, form)

SpecRegister == InitRegister /\ [][NextRegister]_vars

\* C26: a registration from a session whose role is not 'admin', a session
\* that is not logged in included, creates the user with role 'employee'
\* whatever role the form submits; and while only visitors use the database,
\* no user but the default administrator has another role than 'employee'.
C26_NonAdminRegistersEmployee ==
    [][/\ \A b \in DOMAIN session, form \in RegisterForms :
            (/\ result'.op = "register"
             /\ result'.success
             /\ SessionRole(session[b]) # <<"admin">>
             /\ register(b, form)) =>
                /\ Len(users') = Len(users) + 1
                /\ users'[Len(users')].role = "employee"
                /\ SubSeq(users', 1, Len(users)) = users
       /\ "administrator" \notin DOMAIN session =>
             \A i \in DOMAIN users' : i > 1 => users'[i].role = "employee"]_vars

C26_Witness ==
    /\ result.op = "register"
    /\ result.success
    /\ result.browser = "visitor"
    /\ result.submitted = <<"admin">>
    /\ "role" \in session["visitor"].keys
    /\ session["visitor"].role = "employee"
    /\ Len(users) = 3
    /\ users[Len(users)].role = "employee"
    /\ "administrator" \notin DOMAIN session

(***************************************************************************)
(* SessionManager: the user_sessions table.                                *)
(*                                                                         *)
(* A row is [user_id, session_token, created_at, last_activity,            *)
(* is_active]; the token of a row, random and unique in the code, is the   *)
(* row's position.  Time is counted in hours.  Each call runs to its end   *)
(* before the next one starts.                                             *)
(***************************************************************************)
MaxSessions == 4
MaxHours == 9
SessionTimeout == 8
MaxConcurrentSessions == 3

SessionUsers == {1, 2}

\* hours that pass between two calls
PassHours == {SessionTimeout, SessionTimeout + 1}

\* UPDATE user_sessions SET is_active = FALSE WHERE session_token = ?
InvalidateToken(table, session_token) ==
    [i \in DOMAIN table |->
        IF table[i].session_token = session_token
        THEN [table[i] EXCEPT !.is_active = FALSE] ELSE table[i]]

\* cleanup_expired_sessions: user_id is <<id>>, or None for every user
CleanupExpired(table, user_id, now) ==
    [i \in DOMAIN table |->
        IF /\ user_id # Null => table[i].user_id = user_id[1]
           /\ table[i].last_activity < now - SessionTimeout
        THEN [table[i] EXCEPT !.is_active = FALSE] ELSE table[i]]

\* SELECT ... WHERE user_id = ? AND is_active = TRUE
ActiveSessions(table, user_id) ==
    SelectSeq(table, LAMBDA s : s.user_id = user_id /\ s.is_active)

\* get_active_session_count
ActiveSessionCount(table, user_id) == Len(ActiveSessions(table, user_id))

\* invalidate_oldest_session: ... ORDER BY created_at ASC LIMIT 1
InvalidateOldest(table, user_id) ==
    LET active == ActiveSessions(table, user_id)
        oldest == CHOOSE i \in DOMAIN active :
                      \A j \in DOMAIN active :
                          \/ active[i].created_at < active[j].created_at
                          \/ active[i].created_at = active[j].created_at /\ i <= j
    IN  IF active = << >> THEN table
        ELSE InvalidateToken(table, active[oldest].session_token)

AtSessionLimitAbove(count) == count > MaxConcurrentSessions

\* if self.get_active_session_count(user_id) >= self.max_concurrent_sessions
AtSessionLimit(count) == count >= MaxConcurrentSessions

create_session(b, user_id) ==
    LET cleaned == CleanupExpired(user_sessions, <<user_id>>, clock)
        room == IF AtSessionLimit(ActiveSessionCount(cleaned, user_id))
                THEN InvalidateOldest(cleaned, user_id) ELSE cleaned
        session_token == Len(user_sessions) + 1
    IN  /\ Len(user_sessions) < MaxSessions
        /\ user_sessions' = Append(room,
               [user_id |-> user_id, session_token |-> session_token,
                created_at |-> clock, last_activity |-> clock, is_active |-> TRUE])
        /\ session' = [session EXCEPT ![b] =
               [@ EXCEPT !.keys = @ \cup {"session_token", "last_activity"},
                         !.session_token = session_token, !.last_activity = clock]]
        /\ result' = [op |-> "create_session", session_token |-> session_token]
        /\ UNCHANGED <<warehouses, users, schema, inventory, movements, nextId, clock,
                       calls, products>>

update_session_activity(b, session_token) ==
    /\ user_sessions' = [i \in DOMAIN user_sessions |->
           IF user_sessions[i].session_token = session_token
           THEN [user_sessions[i] EXCEPT !.last_activity = clock] ELSE user_sessions[i]]
    /\ session' = [session EXCEPT ![b] =
           [@ EXCEPT !.keys = @ \cup {"last_activity"}, !.last_activity = clock]]
    /\ result' = [op |-> "update_session_activity"]
    /\ UNCHANGED <<warehouses, users, schema, inventory, movements, nextId, clock,
                   calls, products>>

invalidate_session(session_token) ==
    /\ user_sessions' = InvalidateToken(user_sessions, session_token)
    /\ result' = [op |-> "invalidate_session"]
    /\ UNCHANGED <<warehouses, users, session, schema, inventory, movements, nextId, clock,
                   calls, products>>

cleanup_expired_sessions(user_id) ==
    /\ user_sessions' = CleanupExpired(user_sessions, user_id, clock)
    /\ result' = [op |-> "cleanup_expired_sessions"]
    /\ UNCHANGED <<warehouses, users, session, schema, inventory, movements, nextId, clock,
                   calls, products>>

\* time passing between two calls
Pass(hours) ==
    /\ clock + hours <= MaxHours
    /\ clock' = clock + hours
    /\ UNCHANGED <<warehouses, users, session, user_sessions, schema, inventory, movements,
                   nextId, result, calls, products>>

InitSessions ==
    /\ schema = "app"
    /\ inventory = << >>
    /\ movements = << >>
    /\ nextId = 1
    /\ clock = 0
    /\ result = NoResult
    /\ calls = << >>
    /\ products = Products
    /\ warehouses = [w \in Warehouses |-> <<DefaultCapacity>>]
    /\ users = <<DefaultAdmin>>
    /\ session = [b \in {"visitor"} |-> ClearedSession]
    /\ user_sessions = << >>

NextSessions ==
    \/ \E b \in DOMAIN session, user_id \in SessionUsers : create_session(b, user_id)
    \/ \E b \in DOMAIN session, session_token \in 1..MaxSessions :
            update_session_activity(b, session_token)
    \/ \E session_token \in 1..MaxSessions : invalidate_session(session_token)
    \/ \E user_id \in {Null} \cup {<<u>> : u \in SessionUsers} :
            cleanup_expired_sessions(user_id)
    \/ \E hours \in PassHours : Pass(hours)

SpecSessions == InitSessions /\ [][NextSessions]_vars

\* a session that the clean-up at time now leaves active
Live(s, now) == s.is_active /\ ~(s.last_activity < now - SessionTimeout)

\* C27: after every call each user has at most 3 active sessions; a
\* create_session for a user with 3 unexpired active sessions deactivates the
\* one created first and adds the new one, leaving 3.
C27_SessionLimit ==
    [][/\ \A u \in SessionUsers : ActiveSessionCount(user_sessions', u) <= 3
       /\ \A b \in DOMAIN session, u \in SessionUsers :
            (/\ result'.op = "create_session"
             /\ Len(SelectSeq(user_sessions, LAMBDA s : s.user_id = u /\ Live(s, clock))) = 3
             /\ create_session(b, u)) =>
                LET live == {i \in DOMAIN user_sessions :
                                user_sessions[i].user_id = u /\ Live(user_sessions[i], clock)}
                    first == CHOOSE i \in live :
                                 \A j \in live :
                                     user_sessions[i].created_at <= user_sessions[j].created_at
                IN  /\ \E i \in live :
                          /\ user_sessions[i].created_at = user_sessions[first].created_at
                          /\ ~user_sessions'[i].is_active
                    /\ user_sessions'[Len(user_sessions')].is_active
                    /\ ActiveSessionCount(user_sessions', u) = 3]_vars

C27_Witness ==
    /\ result.op = "create_session"
    /\ clock = 0
    /\ Len(user_sessions) = 4
    /\ \A i \in DOMAIN user_sessions : user_sessions[i].user_id = 1
    /\ ~user_sessions[1].is_active
    /\ \A i \in 2..4 : user_sessions[i].is_active

====
